---- MODULE Spec2Model ----
(***************************************************************************)
(* State-machine model of MEVBoostAccount (src/src/mevboostAccount.ts):    *)
(* the static init (address resolution and middleware registration), the   *)
(* call-data setters, the finalization pipeline of the base builder with   *)
(* the resolveAccount middleware, and the boostWait polling loop.          *)
(***************************************************************************)
EXTENDS Integers, Sequences, FiniteSets, TLC

VARIABLES
  pc,               \* position of the single caller of the builder
  opts,             \* IMEVBoostAccountBuilderOpts given to init
  entryPoint,       \* this.entryPoint (address the contract is connected to)
  factory,          \* this.factory
  mevBoostPaymaster,\* this.mevBoostPaymaster
  initCode,         \* this.initCode
  proxy,            \* this.proxy (address the contract is connected to)
  defaultOp,        \* base builder: default operation
  currOp,           \* base builder: operation-in-progress
  middlewareStack,  \* base builder: registered middleware, in order
  senderCall,       \* outcome the getSenderAddress simulation had in init
  thrown,           \* error the last operation raised to its caller
  ctxOp,            \* finalization: the context's copy of the operation
  mw,               \* finalization: index of the next middleware to run
  ran,              \* finalization: middleware run so far, in order
  rpcFailed,        \* finalization: middleware whose network call failed
  nonceCall,        \* finalization: the getNonce call made and its answer
  result,           \* finalization: the operation returned to the caller
  lastFailed,       \* the last completed finalization on this builder failed
  retry,            \* the finalization in progress follows a failed one
  now,              \* Date.now()
  log,              \* SettleUserOp events of the paymaster, append-only
  wait,             \* locals and observations of the boostWait invocation
  waits,            \* number of boostWait invocations made
  callers           \* the callers sharing the builder and what each is doing

bvars == <<opts, entryPoint, factory, mevBoostPaymaster, initCode, proxy,
           defaultOp, currOp, middlewareStack, senderCall>>
fvars == <<ctxOp, mw, ran, rpcFailed, nonceCall, result, lastFailed, retry>>
wvars == <<now, log, wait, waits>>
vars == <<pc, bvars, thrown, fvars, wvars, callers>>

----------------------------------------------------------------------------
(* Values *)

\* The clock reading when the builder is constructed.
StartTime == 100000

\* JavaScript undefined (an absent argument or field).
Undefined == "undefined"
\* The empty byte string "0x".
EmptyBytes == <<>>
\* ethers.constants.AddressZero
AddressZero == "0x0000000000000000000000000000000000000000"
\* Constants.ERC4337.EntryPoint, MEVBoostAA.Factory, MEVBoostAA.MEVBoostPaymaster
DefaultEntryPoint == "0xEntryPoint"
DefaultFactory == "0xFactory"
DefaultPaymaster == "0xPaymaster"
\* The address signer.getAddress() resolves to.
SignerAddress == "0xSigner"
\* A counterfactual account address the entry point can report.
AccountAddress == "0xAccount"

\* JavaScript truthiness of an optional string: !v
Falsy(v) == v \in {Undefined, ""}
\* a || b on optional strings
OrElse(a, b) == IF Falsy(a) THEN b ELSE a

\* Errors: a message and the decoded revert arguments, if any.
Err(msg, hasArgs, sender) == [message |-> msg, hasArgs |-> hasArgs, sender |-> sender]
NoError == Err("", FALSE, Undefined)
\* new Error("getSenderAddress: unexpected result")
UnexpectedResult == Err("getSenderAddress: unexpected result", FALSE, Undefined)
\* A transport failure of a provider call.
NetworkError(what) == Err(what, FALSE, Undefined)
\* error?.errorArgs?.sender
ErrorSender(error) == IF error.hasArgs THEN error.sender ELSE Undefined

\* The failures callStatic.getSenderAddress can end with: the SenderAddressResult
\* revert with its sender argument, a revert with other arguments, a transport error.
SenderValues == {AccountAddress, AddressZero, ""}
SenderFailures ==
  {Err("SenderAddressResult", TRUE, s) : s \in SenderValues}
    \cup {Err("FailedOp", TRUE, Undefined), NetworkError("getSenderAddress")}
NoCall == [ok |-> FALSE, made |-> FALSE, err |-> NoError]

\* The option sets init is called with.
OptsSet ==
  { [entryPoint |-> Undefined, factory |-> Undefined,
     mevBoostPaymaster |-> Undefined, paymasterMiddleware |-> FALSE],
    [entryPoint |-> "0xEntryPoint2", factory |-> "0xFactory2",
     mevBoostPaymaster |-> "0xPaymaster2", paymasterMiddleware |-> TRUE],
    [entryPoint |-> Undefined, factory |-> "",
     mevBoostPaymaster |-> "0xPaymaster2", paymasterMiddleware |-> FALSE] }

\* The base builder's default operation.
DEFAULT_USER_OP ==
  [sender |-> AddressZero, nonce |-> 0, initCode |-> EmptyBytes,
   callData |-> EmptyBytes, gasPrice |-> "unset", gasLimits |-> "default",
   signature |-> EmptyBytes]
NoOp == [DEFAULT_USER_OP EXCEPT !.sender = Undefined]
NoNonceCall == [made |-> FALSE, sender |-> Undefined, nonce |-> 0]

\* signer.signMessage(arrayify(digest))
SignMessage(digest) == <<SignerAddress, digest>>
\* The placeholder: signMessage(arrayify(keccak256("0xdead")))
PlaceholderSignature == SignMessage(<<"keccak256", "0xdead">>)

----------------------------------------------------------------------------
(* Construction and init *)

\* hexConcat([factory.address, encodeFunctionData("createAccount",
\*   [signerAddress, paymaster.address, BigNumber.from(0)])])
CreateAccountInitCode(f, owner, pm) == <<f>> \o <<"createAccount", owner, pm, "0">>

\* No settlement event.
NoEvent == [block |-> 0, userOpHash |-> Undefined, index |-> 0]
\* The locals of boostWait when no invocation is in progress.
NoWait ==
  [hash |-> Undefined, deadlineArg |-> <<>>, calledAt |-> 0, end |-> 0,
   interval |-> 0, block |-> -1, polls |-> 0, sleeps |-> 0, fromBlock |-> -1,
   lastQueryAt |-> 0, empties |-> 0, events |-> <<>>, ret |-> "none",
   value |-> NoEvent, failedCall |-> "none"]

\* The registers of a caller that is not running: its position and the locals
\* of the finalization it is in.
NoRegisters ==
  [pc |-> "idle", thrown |-> NoError, ctxOp |-> NoOp, mw |-> 0, ran |-> <<>>,
   rpcFailed |-> "none", nonceCall |-> NoNonceCall, result |-> NoOp, retry |-> FALSE]
\* A single caller uses the builder: nothing is recorded about it.
OneCaller ==
  [two |-> FALSE, cur |-> 1, asked |-> <<"none", "none">>,
   suspended |-> <<FALSE, FALSE>>, cycles |-> <<0, 0>>, parked |-> NoRegisters]
\* The running caller called the setter fn: its cycle begins.
Called(c, fn) ==
  IF c.two THEN [c EXCEPT !.asked[c.cur] = fn] ELSE c
\* The running caller took the outcome of its finalization: its cycle is over.
Finished(c) ==
  IF c.two
    THEN [c EXCEPT !.asked[c.cur] = "none", !.suspended[c.cur] = FALSE,
                   !.cycles[c.cur] = @ + 1]
    ELSE c

\* new MEVBoostAccount(signer, rpcUrl, opts): the state init starts from.
Init ==
  /\ opts \in OptsSet
  /\ pc = "init_initCode"
  /\ entryPoint = OrElse(opts.entryPoint, DefaultEntryPoint)
  /\ factory = OrElse(opts.factory, DefaultFactory)
  /\ mevBoostPaymaster = OrElse(opts.mevBoostPaymaster, DefaultPaymaster)
  /\ initCode = EmptyBytes
  /\ proxy = AddressZero
  /\ defaultOp = DEFAULT_USER_OP
  /\ currOp = DEFAULT_USER_OP
  /\ middlewareStack = <<>>
  /\ senderCall = NoCall
  /\ thrown = NoError
  /\ ctxOp = NoOp
  /\ mw = 0
  /\ ran = <<>>
  /\ rpcFailed = "none"
  /\ nonceCall = NoNonceCall
  /\ result = NoOp
  /\ lastFailed = FALSE
  /\ retry = FALSE
  /\ callers = OneCaller
  /\ now = StartTime
  /\ log = <<>>
  /\ wait = NoWait
  /\ waits = 0

\* Variant of InitCatch: a failure without a sender is replaced by a new error.
InitCatch_Rewrap(error) ==
  LET addr == ErrorSender(error) IN
  IF Falsy(addr)
    THEN /\ thrown' = Err("init failed", FALSE, Undefined)
         /\ pc' = "init_failed"
         /\ proxy' = proxy
    ELSE /\ proxy' = addr
         /\ pc' = "init_register"
         /\ thrown' = thrown

\* The catch block of init (lines 94-102) applied to the caught error.
InitCatch(error) ==
  LET addr == ErrorSender(error) IN
  IF Falsy(addr)
    THEN /\ thrown' = error
         /\ pc' = "init_failed"
         /\ proxy' = proxy
    ELSE /\ proxy' = addr
         /\ pc' = "init_register"
         /\ thrown' = thrown

\* Lines 82-89: compute the init code; a failure of signer.getAddress() is
\* caught by the same catch block.
InitInitCode ==
  /\ pc = "init_initCode"
  /\ \/ /\ initCode' = CreateAccountInitCode(factory, SignerAddress, mevBoostPaymaster)
        /\ pc' = "init_getSender"
        /\ UNCHANGED <<proxy, thrown>>
     \/ /\ InitCatch(NetworkError("getAddress"))
        /\ UNCHANGED initCode
  /\ UNCHANGED <<callers, opts, entryPoint, factory, mevBoostPaymaster, defaultOp, currOp,
                 middlewareStack, senderCall, fvars, wvars>>

\* Variant of InitGetSenderAddress: a call that returns normally falls through
\* the try block instead of throwing.
InitGetSenderAddress_FallThrough ==
  /\ pc = "init_getSender"
  /\ \/ /\ senderCall' = [ok |-> TRUE, made |-> TRUE, err |-> NoError]
        /\ pc' = "init_register"
        /\ UNCHANGED <<proxy, thrown>>
     \/ \E e \in SenderFailures :
          /\ senderCall' = [ok |-> FALSE, made |-> TRUE, err |-> e]
          /\ InitCatch(e)
  /\ UNCHANGED <<callers, opts, entryPoint, factory, mevBoostPaymaster, initCode, defaultOp,
                 currOp, middlewareStack, fvars, wvars>>

\* Lines 91-102: the simulated getSenderAddress call; returning normally
\* throws the unexpected-result error inside the try block.
InitGetSenderAddress ==
  /\ pc = "init_getSender"
  /\ \/ /\ senderCall' = [ok |-> TRUE, made |-> TRUE, err |-> NoError]
        /\ InitCatch(UnexpectedResult)
     \/ \E e \in SenderFailures :
          /\ senderCall' = [ok |-> FALSE, made |-> TRUE, err |-> e]
          /\ InitCatch(e)
  /\ UNCHANGED <<callers, opts, entryPoint, factory, mevBoostPaymaster, initCode, defaultOp,
                 currOp, middlewareStack, fvars, wvars>>

\* Variant of RegisteredMiddleware: the signature middleware is not registered.
RegisteredMiddleware_NoSignature(o) ==
  << "resolveAccount", "getGasPrice",
     IF o.paymasterMiddleware THEN "paymasterMiddleware" ELSE "estimateUserOperationGas" >>

\* Variant of RegisteredMiddleware: the signature is registered before the
\* gas estimation.
RegisteredMiddleware_SignatureEarly(o) ==
  << "resolveAccount", "getGasPrice", "EOASignature",
     IF o.paymasterMiddleware THEN "paymasterMiddleware" ELSE "estimateUserOperationGas" >>

\* Variant of RegisteredMiddleware: the default estimator is registered as well
\* when the options carry a paymaster middleware.
RegisteredMiddleware_Both(o) ==
  IF o.paymasterMiddleware
    THEN << "resolveAccount", "getGasPrice", "paymasterMiddleware",
            "estimateUserOperationGas", "EOASignature" >>
    ELSE << "resolveAccount", "getGasPrice", "estimateUserOperationGas", "EOASignature" >>

\* The middleware init registers, in order (lines 111-120).
RegisteredMiddleware(o) ==
  << "resolveAccount", "getGasPrice",
     IF o.paymasterMiddleware THEN "paymasterMiddleware" ELSE "estimateUserOperationGas",
     "EOASignature" >>

\* Lines 104-120: seed the defaults and register the middleware; a failure of
\* signer.signMessage propagates.
InitRegister ==
  /\ pc = "init_register"
  /\ \/ /\ defaultOp' = [defaultOp EXCEPT !.sender = proxy, !.signature = PlaceholderSignature]
        /\ currOp' = [currOp EXCEPT !.sender = proxy, !.signature = PlaceholderSignature]
        /\ middlewareStack' = RegisteredMiddleware(opts)
        /\ pc' = "idle"
        /\ UNCHANGED thrown
     \/ /\ thrown' = NetworkError("signMessage")
        /\ pc' = "init_failed"
        /\ UNCHANGED <<defaultOp, currOp, middlewareStack>>
  /\ UNCHANGED <<callers, opts, entryPoint, factory, mevBoostPaymaster, initCode, proxy,
                 senderCall, fvars, wvars>>

\* init returned a builder to the caller.
Returned == pc \notin {"init_initCode", "init_getSender", "init_register", "init_failed"}


----------------------------------------------------------------------------
(* Call-data setters *)

\* Bounds of the setters' inputs.
MaxBatch == 1
Targets == {"0xTarget"}
Values == {0}
Datas == {EmptyBytes}
MEVConfigs == {"mevConfig"}
\* Parallel arrays of one length, as the batch setters' precondition asks.
Batches(S) == UNION {[1..n -> S] : n \in 0..MaxBatch}

\* this.proxy.interface.encodeFunctionData(fn, args): selector, then arguments.
EncodeFunctionData(fn, args) == <<fn>> \o args

\* The base builder's setCallData.
SetCallData(data) ==
  /\ currOp' = [currOp EXCEPT !.callData = data]
  /\ UNCHANGED <<pc, opts, entryPoint, factory, mevBoostPaymaster, initCode, proxy,
                 defaultOp, middlewareStack, senderCall, thrown, fvars, wvars>>

\* Variant of execute: the operation is reset to the defaults before the call
\* data is set.
execute_ResetsOp ==
  /\ pc = "idle"
  /\ \E to \in Targets, value \in Values, data \in Datas :
       /\ currOp' = [defaultOp EXCEPT
                       !.callData = EncodeFunctionData("execute", <<to, value, data>>)]
       /\ UNCHANGED <<pc, opts, entryPoint, factory, mevBoostPaymaster, initCode, proxy,
                      defaultOp, middlewareStack, senderCall, thrown, fvars, wvars>>
  /\ callers' = Called(callers, "execute")

\* Variant of execute: the call is encoded with executeBatch's selector.
execute_WrongSelector ==
  /\ pc = "idle"
  /\ \E to \in Targets, value \in Values, data \in Datas :
       SetCallData(EncodeFunctionData("executeBatch", <<to, value, data>>))
  /\ callers' = Called(callers, "execute")

execute ==
  /\ pc = "idle"
  /\ \E to \in Targets, value \in Values, data \in Datas :
       SetCallData(EncodeFunctionData("execute", <<to, value, data>>))
  /\ callers' = Called(callers, "execute")

executeBatch ==
  /\ pc = "idle"
  /\ \E to \in Batches(Targets), value \in Batches(Values), data \in Batches(Datas) :
       /\ Len(to) = Len(value) /\ Len(value) = Len(data)
       /\ SetCallData(EncodeFunctionData("executeBatch", <<to, value, data>>))
  /\ callers' = Called(callers, "executeBatch")

boostExecute ==
  /\ pc = "idle"
  /\ \E config \in MEVConfigs, to \in Targets, value \in Values, data \in Datas :
       SetCallData(EncodeFunctionData("boostExecute", <<config, to, value, data>>))
  /\ callers' = Called(callers, "boostExecute")

boostExecuteBatch ==
  /\ pc = "idle"
  /\ \E config \in MEVConfigs, to \in Batches(Targets), value \in Batches(Values),
        data \in Batches(Datas) :
       /\ Len(to) = Len(value) /\ Len(value) = Len(data)
       /\ SetCallData(EncodeFunctionData("boostExecuteBatch", <<config, to, value, data>>))
  /\ callers' = Called(callers, "boostExecuteBatch")

----------------------------------------------------------------------------
(* Finalization: the base builder's pipeline and the registered middleware *)

\* Largest nonce the entry point reports.
MaxNonce == 2

\* The fields of the instance that init binds.
ivars == <<entryPoint, factory, mevBoostPaymaster, initCode, proxy>>

\* Variant of resolveAccount: the init code is attached up to nonce 1.
resolveAccount_OffByOne ==
  /\ \/ \E nonce \in 0..MaxNonce :
          /\ nonceCall' = [made |-> TRUE, sender |-> ctxOp.sender, nonce |-> nonce]
          /\ ctxOp' = [ctxOp EXCEPT !.nonce = nonce,
                                    !.initCode = IF nonce <= 1 THEN initCode ELSE EmptyBytes]
          /\ thrown' = NoError
          /\ rpcFailed' = rpcFailed
     \/ /\ nonceCall' = nonceCall
        /\ ctxOp' = ctxOp
        /\ thrown' = NetworkError("getNonce")
        /\ rpcFailed' = "resolveAccount"
  /\ UNCHANGED ivars

\* Variant of resolveAccount: a failure of getNonce is caught and nonce 0 assumed.
resolveAccount_Swallow ==
  /\ \/ \E nonce \in 0..MaxNonce :
          /\ nonceCall' = [made |-> TRUE, sender |-> ctxOp.sender, nonce |-> nonce]
          /\ ctxOp' = [ctxOp EXCEPT !.nonce = nonce,
                                    !.initCode = IF nonce = 0 THEN initCode ELSE EmptyBytes]
          /\ thrown' = NoError
          /\ rpcFailed' = rpcFailed
     \/ /\ nonceCall' = nonceCall
        /\ ctxOp' = [ctxOp EXCEPT !.nonce = 0, !.initCode = initCode]
        /\ thrown' = NoError
        /\ rpcFailed' = "resolveAccount"
  /\ UNCHANGED ivars

\* Variant of resolveAccount: the empty init code is stored on the instance.
resolveAccount_StoresInitCode ==
  /\ \/ \E nonce \in 0..MaxNonce :
          /\ nonceCall' = [made |-> TRUE, sender |-> ctxOp.sender, nonce |-> nonce]
          /\ initCode' = IF nonce = 0 THEN initCode ELSE EmptyBytes
          /\ ctxOp' = [ctxOp EXCEPT !.nonce = nonce, !.initCode = initCode']
          /\ thrown' = NoError
          /\ rpcFailed' = rpcFailed
     \/ /\ nonceCall' = nonceCall
        /\ initCode' = initCode
        /\ ctxOp' = ctxOp
        /\ thrown' = NetworkError("getNonce")
        /\ rpcFailed' = "resolveAccount"
  /\ UNCHANGED <<entryPoint, factory, mevBoostPaymaster, proxy>>

\* Variant of resolveAccount: init code already attached to the operation is kept.
resolveAccount_KeepsSelection ==
  /\ \/ \E nonce \in 0..MaxNonce :
          /\ nonceCall' = [made |-> TRUE, sender |-> ctxOp.sender, nonce |-> nonce]
          /\ ctxOp' = [ctxOp EXCEPT !.nonce = nonce,
                                    !.initCode = IF nonce = 0 \/ ctxOp.initCode # EmptyBytes
                                                   THEN initCode ELSE EmptyBytes]
          /\ thrown' = NoError
          /\ rpcFailed' = rpcFailed
     \/ /\ nonceCall' = nonceCall
        /\ ctxOp' = ctxOp
        /\ thrown' = NetworkError("getNonce")
        /\ rpcFailed' = "resolveAccount"
  /\ UNCHANGED ivars

\* Lines 69-72. A failure of entryPoint.getNonce leaves the operation as it was
\* and is thrown to the pipeline.
resolveAccount ==
  /\ \/ \E nonce \in 0..MaxNonce :
          /\ nonceCall' = [made |-> TRUE, sender |-> ctxOp.sender, nonce |-> nonce]
          /\ ctxOp' = [ctxOp EXCEPT !.nonce = nonce,
                                    !.initCode = IF nonce = 0 THEN initCode ELSE EmptyBytes]
          /\ thrown' = NoError
          /\ rpcFailed' = rpcFailed
     \/ /\ nonceCall' = nonceCall
        /\ ctxOp' = ctxOp
        /\ thrown' = NetworkError("getNonce")
        /\ rpcFailed' = "resolveAccount"
  /\ UNCHANGED ivars

\* Presets.Middleware.getGasPrice(provider): fills the fee fields.
getGasPrice ==
  /\ \/ /\ ctxOp' = [ctxOp EXCEPT !.gasPrice = "set"]
        /\ thrown' = NoError
        /\ rpcFailed' = rpcFailed
     \/ /\ ctxOp' = ctxOp
        /\ thrown' = NetworkError("getGasPrice")
        /\ rpcFailed' = "getGasPrice"
  /\ UNCHANGED <<ivars, nonceCall>>

\* estimateUserOperationGas(provider): fills the gas limits from the bundler.
estimateUserOperationGas ==
  /\ \/ /\ ctxOp' = [ctxOp EXCEPT !.gasLimits = "estimated"]
        /\ thrown' = NoError
        /\ rpcFailed' = rpcFailed
     \/ /\ ctxOp' = ctxOp
        /\ thrown' = NetworkError("estimateUserOperationGas")
        /\ rpcFailed' = "estimateUserOperationGas"
  /\ UNCHANGED <<ivars, nonceCall>>

\* opts.paymasterMiddleware: the caller's paymaster-aware estimator.
paymasterMiddleware ==
  /\ \/ /\ ctxOp' = [ctxOp EXCEPT !.gasLimits = "paymaster"]
        /\ thrown' = NoError
        /\ rpcFailed' = rpcFailed
     \/ /\ ctxOp' = ctxOp
        /\ thrown' = NetworkError("paymasterMiddleware")
        /\ rpcFailed' = "paymasterMiddleware"
  /\ UNCHANGED <<ivars, nonceCall>>

\* The hash the signature covers: every field but the signature, and the entry point.
UserOpHash(op) ==
  <<"userOpHash", op.sender, op.nonce, op.initCode, op.callData, op.gasPrice,
    op.gasLimits, entryPoint>>

\* EOASignature(provider, signer): signs the operation hash.
EOASignature ==
  /\ \/ /\ ctxOp' = [ctxOp EXCEPT !.signature = SignMessage(UserOpHash(ctxOp))]
        /\ thrown' = NoError
        /\ rpcFailed' = rpcFailed
     \/ /\ ctxOp' = ctxOp
        /\ thrown' = NetworkError("signMessage")
        /\ rpcFailed' = "EOASignature"
  /\ UNCHANGED <<ivars, nonceCall>>

\* The caller starts a finalization: the context copies the operation-in-progress.
FinalizeStart ==
  /\ pc = "idle"
  /\ pc' = "finalize"
  /\ ctxOp' = currOp
  /\ mw' = 1
  /\ ran' = <<>>
  /\ rpcFailed' = "none"
  /\ nonceCall' = NoNonceCall
  /\ result' = NoOp
  /\ thrown' = NoError
  /\ retry' = lastFailed
  /\ UNCHANGED <<callers, bvars, lastFailed, wvars>>

\* One step of the pipeline: the middleware at position mw runs; when it throws,
\* the finalization ends there and the error goes to the caller.
FinalizeStep(name, Middleware) ==
  /\ mw <= Len(middlewareStack)
  /\ middlewareStack[mw] = name
  /\ Middleware
  /\ ran' = Append(ran, name)
  /\ IF thrown' = NoError
       THEN /\ mw' = mw + 1
            /\ pc' = pc
            /\ lastFailed' = lastFailed
       ELSE /\ mw' = mw
            /\ pc' = "finalize_done"
            /\ lastFailed' = TRUE
  /\ UNCHANGED <<callers, opts, defaultOp, currOp, middlewareStack, senderCall, result, retry, wvars>>

FinalizeResolveAccount ==
  /\ pc = "finalize"
  /\ FinalizeStep("resolveAccount", resolveAccount)
FinalizeGetGasPrice ==
  /\ pc = "finalize"
  /\ FinalizeStep("getGasPrice", getGasPrice)
FinalizeEstimateGas ==
  /\ pc = "finalize"
  /\ FinalizeStep("estimateUserOperationGas", estimateUserOperationGas)
FinalizePaymaster ==
  /\ pc = "finalize"
  /\ FinalizeStep("paymasterMiddleware", paymasterMiddleware)
FinalizeSignature ==
  /\ pc = "finalize"
  /\ FinalizeStep("EOASignature", EOASignature)

\* Every middleware ran: the context's operation becomes the operation-in-progress
\* and is returned.
FinalizeReturn ==
  /\ pc = "finalize"
  /\ mw > Len(middlewareStack)
  /\ currOp' = ctxOp
  /\ result' = ctxOp
  /\ pc' = "finalize_done"
  /\ lastFailed' = FALSE
  /\ UNCHANGED <<callers, opts, entryPoint, factory, mevBoostPaymaster, initCode, proxy, defaultOp,
                 middlewareStack, senderCall, thrown, ctxOp, mw, ran, rpcFailed, nonceCall,
                 retry, wvars>>

\* The caller takes the outcome of the finalization and goes on.
FinalizeDone ==
  /\ pc = "finalize_done"
  /\ pc' = "idle"
  /\ ctxOp' = NoOp
  /\ mw' = 0
  /\ ran' = <<>>
  /\ rpcFailed' = "none"
  /\ nonceCall' = NoNonceCall
  /\ result' = NoOp
  /\ thrown' = NoError
  /\ retry' = FALSE
  /\ callers' = Finished(callers)
  /\ UNCHANGED <<bvars, lastFailed, wvars>>


----------------------------------------------------------------------------
(* boostWait *)

\* Line 176: the default wait; line 174: the default poll interval; line 181:
\* how far behind the captured head the scan starts.
DefaultWaitMs == 30000
DefaultIntervalMs == 5000
ScanBack == 100

\* Bound: the number of events logged.
MaxLog == 3
\* Bounds: the boostWait invocations per run, and the count at which the
\* observed numbers of queries and sleeps of an invocation stop growing.
MaxWaits == 1
MaxCount == 8
Counted(n) == IF n < MaxCount THEN n + 1 ELSE MaxCount

UserOpHashes == {"0xH1"}
\* An optional argument is <<>> when absent and <<v>> when supplied.
Absent == <<>>
\* Time a provider call takes, and how late a timer can fire.
CallDurations == {0, 2500}
\* The longest a provider call takes.
MaxDuration == CHOOSE d \in CallDurations : \A e \in CallDurations : e <= d
\* Deadlines supplied at clock reading t: zero, long past, just past, now, ahead.
DeadlineArgs(t) == {Absent, <<0>>, <<t - 2500>>, <<t>>, <<t + 7500>>}
IntervalArgs == {Absent, <<0>>, <<2500>>}
\* Chain heads getBlock("latest") can report.
Heads == {60, 250}

\* The i-th SettleUserOp event the paymaster emits.
EventAt(i) == [block |-> 60 * i, userOpHash |-> IF i % 2 = 1 THEN "0xH1" ELSE "0xH2", index |-> i]
LastBlock == IF log = <<>> THEN 0 ELSE log[Len(log)].block

\* Variant of EndOf: only an absent deadline takes the default (deadlineMs ?? ...).
EndOf_ZeroKept(deadlineMs, t) ==
  IF deadlineMs = Absent THEN t + DefaultWaitMs ELSE deadlineMs[1]
\* deadlineMs || Date.now() + 30000
EndOf(deadlineMs, t) ==
  IF deadlineMs = Absent \/ deadlineMs[1] = 0 THEN t + DefaultWaitMs ELSE deadlineMs[1]
\* waitIntervalMs: number = 5000
IntervalOf(waitIntervalMs) ==
  IF waitIntervalMs = Absent THEN DefaultIntervalMs ELSE waitIntervalMs[1]
\* Variant of FromBlock: the start block is not clamped at 0.
FromBlock_Unclamped(number) == number - ScanBack
\* Math.max(0, block.number - 100)
FromBlock(number) == IF number - ScanBack > 0 THEN number - ScanBack ELSE 0
\* queryFilter(filters.SettleUserOp(null, userOpHash), fromBlock): the matching
\* events from fromBlock to the latest block, in log order.
QueryFilter(hash, fromBlock) ==
  SelectSeq(log, LAMBDA e : e.userOpHash = hash /\ e.block >= fromBlock)

\* The paymaster settles an operation: the event log grows.
SettleUserOp ==
  /\ Len(log) < MaxLog
  /\ log' = Append(log, EventAt(Len(log) + 1))
  /\ UNCHANGED <<callers, pc, bvars, thrown, fvars, now, wait, waits>>

\* Lines 171-176: the call; end is computed before the chain head is fetched.
BoostWaitCallWith(deadlines, intervals) ==
  /\ waits < MaxWaits
  /\ waits' = waits + 1
  /\ \E userOpHash \in UserOpHashes, deadlineMs \in deadlines,
        waitIntervalMs \in intervals :
       wait' = [NoWait EXCEPT !.hash = userOpHash,
                              !.deadlineArg = deadlineMs,
                              !.calledAt = now,
                              !.end = EndOf(deadlineMs, now),
                              !.interval = IntervalOf(waitIntervalMs)]
  /\ pc' = "wait_getBlock"
  /\ thrown' = NoError
  /\ UNCHANGED <<callers, bvars, fvars, now, log>>

BoostWaitCall ==
  /\ pc = "idle"
  /\ BoostWaitCallWith(DeadlineArgs(now), IntervalArgs)
\* The same call with a deadline at most one timer step ahead.
BoostWaitCallBrief ==
  /\ pc = "idle"
  /\ BoostWaitCallWith({<<now>>, <<now + 2500>>}, {<<2500>>})

\* Line 177: provider.getBlock("latest"); a transport failure is thrown to the caller.
BoostWaitGetBlock ==
  /\ pc = "wait_getBlock"
  /\ \E d \in CallDurations :
       /\ now' = now + d
       /\ \/ \E number \in {h \in Heads : h >= LastBlock} :
               /\ wait' = [wait EXCEPT !.block = number]
               /\ pc' = "wait_loop"
               /\ thrown' = thrown
          \/ /\ wait' = [wait EXCEPT !.failedCall = "getBlock"]
             /\ pc' = "wait_done"
             /\ thrown' = NetworkError("getBlock")
  /\ UNCHANGED <<callers, bvars, fvars, log, waits>>

\* Variant of BoostWaitQuery: the last matching event is returned.
BoostWaitQuery_LastEvent ==
  /\ pc = "wait_loop"
  /\ now < wait.end
  /\ \E d \in CallDurations :
       /\ now' = now + d
       /\ LET fromBlock == FromBlock(wait.block)
              events == QueryFilter(wait.hash, fromBlock)
              issued == [wait EXCEPT !.polls = Counted(@), !.fromBlock = fromBlock,
                                     !.lastQueryAt = now]
          IN \/ /\ Len(events) > 0
                /\ wait' = [issued EXCEPT !.events = events, !.ret = "event",
                                          !.value = events[Len(events)]]
                /\ pc' = "wait_done"
                /\ thrown' = thrown
             \/ /\ Len(events) = 0
                /\ wait' = [issued EXCEPT !.events = events, !.empties = Counted(@)]
                /\ pc' = "wait_sleep"
                /\ thrown' = thrown
             \/ /\ wait' = [issued EXCEPT !.failedCall = "queryFilter"]
                /\ pc' = "wait_done"
                /\ thrown' = NetworkError("queryFilter")
  /\ UNCHANGED <<callers, bvars, fvars, log, waits>>

\* Variant of BoostWaitQuery: a failed query is caught and the loop goes on.
BoostWaitQuery_Retry ==
  /\ pc = "wait_loop"
  /\ now < wait.end
  /\ \E d \in CallDurations :
       /\ now' = now + d
       /\ LET fromBlock == FromBlock(wait.block)
              events == QueryFilter(wait.hash, fromBlock)
              issued == [wait EXCEPT !.polls = Counted(@), !.fromBlock = fromBlock,
                                     !.lastQueryAt = now]
          IN \/ /\ Len(events) > 0
                /\ wait' = [issued EXCEPT !.events = events, !.ret = "event",
                                          !.value = events[1]]
                /\ pc' = "wait_done"
                /\ thrown' = thrown
             \/ /\ Len(events) = 0
                /\ wait' = [issued EXCEPT !.events = events, !.empties = Counted(@)]
                /\ pc' = "wait_sleep"
                /\ thrown' = thrown
             \/ /\ wait' = [issued EXCEPT !.failedCall = "queryFilter"]
                /\ pc' = "wait_sleep"
                /\ thrown' = thrown
  /\ UNCHANGED <<callers, bvars, fvars, log, waits>>

\* Lines 178-185: the loop test holds and one query is issued; a match returns
\* its first event, a transport failure is thrown to the caller.
\* Variant of BoostWaitQuery: the loop condition is Date.now() <= end.
BoostWaitQuery_AtDeadline ==
  /\ pc = "wait_loop"
  /\ now <= wait.end
  /\ \E d \in CallDurations :
       /\ now' = now + d
       /\ LET fromBlock == FromBlock(wait.block)
              events == QueryFilter(wait.hash, fromBlock)
              issued == [wait EXCEPT !.polls = Counted(@), !.fromBlock = fromBlock,
                                     !.lastQueryAt = now]
          IN \/ /\ Len(events) > 0
                /\ wait' = [issued EXCEPT !.events = events, !.ret = "event",
                                          !.value = events[1]]
                /\ pc' = "wait_done"
                /\ thrown' = thrown
             \/ /\ Len(events) = 0
                /\ wait' = [issued EXCEPT !.events = events, !.empties = Counted(@)]
                /\ pc' = "wait_sleep"
                /\ thrown' = thrown
             \/ /\ wait' = [issued EXCEPT !.failedCall = "queryFilter"]
                /\ pc' = "wait_done"
                /\ thrown' = NetworkError("queryFilter")
  /\ UNCHANGED <<callers, bvars, fvars, log, waits>>

BoostWaitQuery ==
  /\ pc = "wait_loop"
  /\ now < wait.end
  /\ \E d \in CallDurations :
       /\ now' = now + d
       /\ LET fromBlock == FromBlock(wait.block)
              events == QueryFilter(wait.hash, fromBlock)
              issued == [wait EXCEPT !.polls = Counted(@), !.fromBlock = fromBlock,
                                     !.lastQueryAt = now]
          IN \/ /\ Len(events) > 0
                /\ wait' = [issued EXCEPT !.events = events, !.ret = "event",
                                          !.value = events[1]]
                /\ pc' = "wait_done"
                /\ thrown' = thrown
             \/ /\ Len(events) = 0
                /\ wait' = [issued EXCEPT !.events = events, !.empties = Counted(@)]
                /\ pc' = "wait_sleep"
                /\ thrown' = thrown
             \/ /\ wait' = [issued EXCEPT !.failedCall = "queryFilter"]
                /\ pc' = "wait_done"
                /\ thrown' = NetworkError("queryFilter")
  /\ UNCHANGED <<callers, bvars, fvars, log, waits>>

\* Line 186: sleep for the poll interval.
\* Variant of BoostWaitSleep: the sleep is twice the poll interval.
BoostWaitSleep_Double ==
  /\ pc = "wait_sleep"
  /\ now' = now + 2 * wait.interval
  /\ wait' = [wait EXCEPT !.sleeps = Counted(@)]
  /\ pc' = "wait_loop"
  /\ UNCHANGED <<callers, bvars, thrown, fvars, log, waits>>

BoostWaitSleep ==
  /\ pc = "wait_sleep"
  /\ now' = now + wait.interval
  /\ wait' = [wait EXCEPT !.sleeps = Counted(@)]
  /\ pc' = "wait_loop"
  /\ UNCHANGED <<callers, bvars, thrown, fvars, log, waits>>

\* Lines 178 and 189: the loop test fails and null is returned.
\* Variant of BoostWaitTimeout: the loop is not left when the deadline has passed.
BoostWaitTimeout_Never ==
  /\ pc = "wait_loop"
  /\ ~(now < wait.end)
  /\ wait' = wait
  /\ pc' = "wait_loop"
  /\ UNCHANGED <<callers, bvars, thrown, fvars, now, log, waits>>

BoostWaitTimeout ==
  /\ pc = "wait_loop"
  /\ ~(now < wait.end)
  /\ wait' = [wait EXCEPT !.ret = "null"]
  /\ pc' = "wait_done"
  /\ UNCHANGED <<callers, bvars, thrown, fvars, now, log, waits>>

\* The caller takes the outcome of boostWait and goes on.
BoostWaitDone ==
  /\ pc = "wait_done"
  /\ pc' = "idle"
  /\ wait' = NoWait
  /\ thrown' = NoError
  /\ UNCHANGED <<callers, bvars, fvars, now, log, waits>>

----------------------------------------------------------------------------
(* Two callers of one builder *)

\* Cycles the two callers run in all.
MaxCycles == 2
\* Cycles begun so far: those completed and those in progress.
Begun(c) ==
  c.cycles[1] + c.cycles[2] + (IF c.asked[1] = "none" THEN 0 ELSE 1)
    + (IF c.asked[2] = "none" THEN 0 ELSE 1)

\* A second caller gets hold of the builder init returned.
SecondCaller ==
  /\ pc = "idle"
  /\ ~callers.two
  /\ callers' = [callers EXCEPT !.two = TRUE]
  /\ UNCHANGED <<pc, bvars, thrown, fvars, wvars>>

\* The caller who is running, between cycles, may begin one. The first caller
\* sends plain calls, the second boosted ones, so that the call data of the
\* two can be told apart.
CycleFree(who) ==
  /\ callers.two
  /\ callers.cur = who
  /\ callers.asked[who] = "none"
  /\ Begun(callers) < MaxCycles

CallerExecute == CycleFree(1) /\ execute
CallerExecuteBatch == CycleFree(1) /\ executeBatch
CallerBoostExecute == CycleFree(2) /\ boostExecute
CallerBoostExecuteBatch == CycleFree(2) /\ boostExecuteBatch

\* The running caller finalizes what it set.
CallerFinalizeStart ==
  /\ callers.two
  /\ callers.asked[callers.cur] # "none"
  /\ FinalizeStart

\* Control passes to the other caller: the running caller is between calls or
\* at the first await of its finalization. The middleware that follow work on
\* the caller's own context and on fields init bound for good, so the other
\* caller's steps commute with them and this one point stands for every await
\* up to the write-back. The running caller's registers are put aside and the
\* other caller's are taken up; a caller put aside within a cycle is marked.
Switch ==
  /\ callers.two
  /\ pc = "idle" \/ (pc = "finalize" /\ mw = 1)
  /\ callers' =
       [callers EXCEPT
          !.cur = 3 - @,
          !.suspended[callers.cur] = @ \/ callers.asked[callers.cur] # "none",
          !.parked = [pc |-> pc, thrown |-> thrown, ctxOp |-> ctxOp, mw |-> mw,
                      ran |-> ran, rpcFailed |-> rpcFailed, nonceCall |-> nonceCall,
                      result |-> result, retry |-> retry]]
  /\ pc' = callers.parked.pc
  /\ thrown' = callers.parked.thrown
  /\ ctxOp' = callers.parked.ctxOp
  /\ mw' = callers.parked.mw
  /\ ran' = callers.parked.ran
  /\ rpcFailed' = callers.parked.rpcFailed
  /\ nonceCall' = callers.parked.nonceCall
  /\ result' = callers.parked.result
  /\ retry' = callers.parked.retry
  /\ UNCHANGED <<bvars, lastFailed, wvars>>

----------------------------------------------------------------------------
(* Specifications *)

InitSteps == InitInitCode \/ InitGetSenderAddress \/ InitRegister
Setters == execute \/ executeBatch \/ boostExecute \/ boostExecuteBatch
Finalize ==
  \/ FinalizeStart \/ FinalizeResolveAccount \/ FinalizeGetGasPrice
  \/ FinalizeEstimateGas \/ FinalizePaymaster \/ FinalizeSignature
  \/ FinalizeReturn \/ FinalizeDone
BoostWaitSteps ==
  \/ BoostWaitGetBlock \/ BoostWaitQuery \/ BoostWaitSleep
  \/ BoostWaitTimeout \/ BoostWaitDone

\* The builder: init, the setters and finalization.
Next == InitSteps \/ Setters \/ Finalize
Spec == Init /\ [][Next]_vars

\* The settlement waiter on an initialized builder.
NextWait == InitSteps \/ BoostWaitCall \/ BoostWaitSteps \/ SettleUserOp
SpecWait == Init /\ [][NextWait]_vars

\* One invocation of the settlement waiter, followed from the call to its
\* return, where every call the invocation awaits returns, every timer fires,
\* and the clock advances: a step of the invocation that takes time is not put
\* off forever.
BoostWaitRun ==
  BoostWaitGetBlock \/ BoostWaitQuery \/ BoostWaitSleep \/ BoostWaitTimeout
NextWaitFair == InitSteps \/ BoostWaitCall \/ BoostWaitRun \/ SettleUserOp
FairWait ==
  /\ WF_vars(BoostWaitRun)
  /\ SF_vars(BoostWaitRun /\ now' > now)
SpecWaitFair == Init /\ [][NextWaitFair]_vars /\ FairWait

\* Every operation of the builder, in any order.
NextAll ==
  InitSteps \/ Setters \/ Finalize \/ BoostWaitCallBrief \/ BoostWaitSteps \/ SettleUserOp
SpecAll == Init /\ [][NextAll]_vars

\* Two callers share the initialized builder. Each runs cycles of one setter
\* call followed by one finalization; the JavaScript event loop runs one caller
\* at a time and can pass control to the other wherever the running caller is
\* between calls or awaits a middleware of its finalization.
NextTwoCallers ==
  \/ InitSteps \/ SecondCaller
  \/ CallerExecute \/ CallerExecuteBatch \/ CallerBoostExecute \/ CallerBoostExecuteBatch
  \/ CallerFinalizeStart \/ FinalizeResolveAccount \/ FinalizeGetGasPrice
  \/ FinalizeEstimateGas \/ FinalizePaymaster \/ FinalizeSignature
  \/ FinalizeReturn \/ FinalizeDone
  \/ Switch
SpecTwoCallers == Init /\ [][NextTwoCallers]_vars

----------------------------------------------------------------------------
(* Claims *)

\* The getSenderAddress failure carried no sender address to recover: the
\* arguments or the sender field are absent, or the sender is empty.
NoRecoverableSender(e) == Falsy(ErrorSender(e))

\* C1: whatever the simulated getSenderAddress call does, init either fails or
\* returns a builder whose proxy address is neither empty nor the zero address.
\* The code binds the zero address when the failure data carries it.
C1_NeverZeroOrEmptyProxy ==
  Returned => proxy \notin {Undefined, "", AddressZero}

\* C2: when the simulated getSenderAddress call returns normally, init fails
\* with the unexpected-result error: no builder is returned, the proxy keeps
\* the unbound address of construction and no middleware is registered.
C2_SuccessIsHardFailure ==
  senderCall.ok =>
    /\ pc = "init_failed"
    /\ thrown = UnexpectedResult
    /\ proxy = AddressZero
    /\ middlewareStack = <<>>
    /\ currOp = DEFAULT_USER_OP

C2_Witness == senderCall.ok /\ pc = "init_failed"

\* C3: when the simulated call fails and its failure data carries no
\* recoverable sender address, init fails with that same failure and nothing
\* of the construction is completed.
C3_MissingSenderPropagates ==
  (senderCall.made /\ ~senderCall.ok /\ NoRecoverableSender(senderCall.err)) =>
    /\ pc = "init_failed"
    /\ thrown = senderCall.err
    /\ proxy = AddressZero
    /\ middlewareStack = <<>>
    /\ currOp = DEFAULT_USER_OP

C3_Witness ==
  /\ senderCall.made /\ ~senderCall.ok
  /\ senderCall.err.hasArgs /\ senderCall.err.sender = ""
  /\ pc = "init_failed"

\* The account resolution middleware ran to completion in the finalization
\* in progress.
Resolved == pc \in {"finalize", "finalize_done"} /\ nonceCall.made

\* C4: once the account resolution middleware has run in a finalization, the
\* operation's nonce is the one the entry point answered for the operation's
\* sender, and its init code is the non-empty init code computed by init when
\* that nonce is 0 and empty when it is greater.
C4_InitCodeIffNonceZero ==
  /\ Returned =>
       /\ initCode = <<factory, "createAccount", SignerAddress, mevBoostPaymaster, "0">>
       /\ Len(initCode) > 0
  /\ Resolved =>
       /\ nonceCall.sender = ctxOp.sender
       /\ ctxOp.nonce = nonceCall.nonce
       /\ (ctxOp.nonce = 0 => ctxOp.initCode = initCode)
       /\ (ctxOp.nonce > 0 => ctxOp.initCode = EmptyBytes)

\* A nonce above 0 was fetched for an operation that held init code before.
C4_Witness ==
  /\ Resolved
  /\ ctxOp.nonce = 1
  /\ ctxOp.initCode = EmptyBytes
  /\ currOp.initCode # EmptyBytes

\* The registration order the claim states.
ClaimedOrder ==
  << "resolveAccount", "getGasPrice",
     IF opts.paymasterMiddleware THEN "paymasterMiddleware" ELSE "estimateUserOperationGas",
     "EOASignature" >>
IsPrefix(a, b) == Len(a) <= Len(b) /\ \A i \in 1..Len(a) : a[i] = b[i]
Ran(name) == \E i \in 1..Len(ran) : ran[i] = name

\* C5: in every finalization the middleware run in the order account
\* resolution, gas price, gas estimation, signature; the signature step runs
\* only after nonce, init code and gas fields were written in that
\* finalization, and a returned operation went through all four.
C5_RegistrationOrder ==
  /\ IsPrefix(ran, ClaimedOrder)
  /\ Ran("EOASignature") =>
       /\ nonceCall.made
       /\ ctxOp.nonce = nonceCall.nonce
       /\ ctxOp.gasPrice = "set"
       /\ ctxOp.gasLimits \in {"estimated", "paymaster"}
  /\ (pc = "finalize_done" /\ thrown = NoError) =>
       /\ ran = ClaimedOrder
       /\ result = ctxOp
       /\ result.signature = SignMessage(UserOpHash(result))

C5_Witness ==
  /\ pc = "finalize_done"
  /\ thrown = NoError
  /\ Len(ran) = 4
  /\ result.signature # PlaceholderSignature

\* C6: a middleware whose call fails ends the finalization: no later
\* middleware runs, the error goes to the caller and no operation is returned
\* or stored; a finalization that follows a failed one starts again at the
\* first middleware and, when it succeeds, has run the whole pipeline.
C6_FailurePropagates ==
  /\ rpcFailed # "none" =>
       /\ pc = "finalize_done"
       /\ thrown # NoError
       /\ ran[Len(ran)] = rpcFailed
       /\ result = NoOp
  /\ (pc = "finalize_done" /\ thrown # NoError) => result = NoOp
  /\ (retry /\ pc \in {"finalize", "finalize_done"}) =>
       /\ IsPrefix(ran, middlewareStack)
       /\ (pc = "finalize" => mw = Len(ran) + 1)
       /\ (thrown = NoError /\ pc = "finalize_done" => ran = middlewareStack)

C6_Witness ==
  /\ pc = "finalize_done"
  /\ rpcFailed = "resolveAccount"
  /\ Len(ran) = 1
  /\ retry

\* A boostWait invocation whose supplied deadline was already past at the call.
PastDeadline ==
  /\ pc \in {"wait_getBlock", "wait_loop", "wait_sleep", "wait_done"}
  /\ wait.deadlineArg # Absent
  /\ wait.deadlineArg[1] < wait.calledAt

\* C7: boostWait called with a deadline already in the past issues at most one
\* query, never sleeps and, when no provider call fails, returns null. The code
\* takes a supplied deadline of 0 for an absent one and waits 30 seconds.
C7_PastDeadlineReturnsNull ==
  PastDeadline =>
    /\ wait.polls <= 1
    /\ wait.sleeps = 0
    /\ (pc = "wait_done" /\ wait.failedCall = "none") => wait.ret = "null"

\* The event matches the filter of the invocation's queries.
Matches(e) == e.userOpHash = wait.hash /\ e.block >= FromBlock(wait.block)

\* C8: a returned event is the first event of the first query that found any:
\* every query before it was empty and no matching event precedes it in the
\* log; null is returned exactly when the loop test fails at or after the
\* deadline with every query issued empty, and only a failed provider call is
\* ever thrown.
C8_FirstEventOrNull ==
  pc = "wait_done" =>
    /\ wait.ret = "event" =>
         /\ thrown = NoError
         /\ Len(wait.events) > 0
         /\ wait.value = wait.events[1]
         /\ Matches(wait.value)
         /\ \A i \in 1..Len(log) : Matches(log[i]) => log[i].index >= wait.value.index
         /\ (wait.polls < MaxCount => wait.empties = wait.polls - 1)
    /\ wait.ret = "null" =>
         /\ thrown = NoError
         /\ wait.failedCall = "none"
         /\ now >= wait.end
         /\ wait.empties = wait.polls
    /\ (wait.failedCall = "none" /\ wait.polls < MaxCount /\ wait.empties = wait.polls) =>
         wait.ret = "null"
    /\ thrown # NoError => (wait.failedCall # "none" /\ wait.ret = "none")

\* The second query of an invocation found two matching events.
C8_Witness ==
  /\ pc = "wait_done"
  /\ wait.ret = "event"
  /\ wait.polls = 2
  /\ Len(wait.events) = 2

\* C9: a failed chain-head fetch or event query ends the invocation with that
\* failure thrown to the caller; no query follows it and the result is not
\* null, so null is returned only when no provider call failed.
C9_TransportFailurePropagates ==
  /\ wait.failedCall # "none" =>
       /\ pc = "wait_done"
       /\ thrown = NetworkError(wait.failedCall)
       /\ wait.ret = "none"
  /\ (pc = "wait_done" /\ wait.ret = "null") =>
       (wait.failedCall = "none" /\ thrown = NoError)

\* The second query of an invocation failed.
C9_Witness ==
  /\ pc = "wait_done"
  /\ wait.failedCall = "queryFilter"
  /\ wait.polls = 2
  /\ wait.sleeps = 1

\* C10: once init has returned the builder, no step of a setter, of a
\* finalization or of boostWait changes the proxy address, the stored init
\* code or the entry point, factory and paymaster references.
C10_InstanceFieldsWriteOnce == [][Returned => ivars' = ivars]_vars

\* A setter, a finalization that fetched a nonce above 0 and a boostWait
\* invocation have all completed on the returned builder.
C10_Witness ==
  /\ pc = "idle"
  /\ waits > 0
  /\ currOp.callData # EmptyBytes
  /\ currOp.nonce > 0
  /\ currOp.signature # PlaceholderSignature
  /\ initCode # EmptyBytes
  /\ proxy = AccountAddress

\* A step of one of the four call-data setters: the caller stays idle.
SetterStep == pc = "idle" /\ pc' = "idle"

\* C11: a step of execute, executeBatch, boostExecute or boostExecuteBatch
\* changes nothing but the call data of the operation-in-progress: no
\* middleware runs, no provider call is made or fails, and sender, nonce, init
\* code, gas fields and signature stay as they were.
C11_SettersSetOnlyCallData ==
  [][SetterStep =>
       /\ currOp' = [currOp EXCEPT !.callData = currOp'.callData]
       /\ currOp'.callData # EmptyBytes
       /\ currOp'.callData[1] \in {"execute", "executeBatch", "boostExecute",
                                   "boostExecuteBatch"}
       /\ UNCHANGED <<ran, mw, nonceCall, rpcFailed, thrown, ctxOp, result, defaultOp,
                      middlewareStack, ivars>>]_vars

\* A setter replaced the call data of an operation a finalization had filled in
\* and signed: nonce and signature are the finalization's.
C11_Witness ==
  /\ pc = "idle"
  /\ currOp.nonce > 0
  /\ currOp.gasPrice = "set"
  /\ currOp.signature # PlaceholderSignature
  /\ currOp.signature # SignMessage(UserOpHash(currOp))

\* A finalization returned an operation to the caller.
Finalized == pc = "finalize_done" /\ thrown = NoError

\* C12: when the account's nonce is above 0, the operation finalized after
\* execute has empty init code, the proxy address init resolved as sender, and
\* the signature the signature middleware made over it, not the placeholder.
C12_DeployedAccountRecord ==
  (Finalized /\ nonceCall.nonce > 0 /\ result.callData # EmptyBytes
     /\ result.callData[1] = "execute") =>
    /\ result.initCode = EmptyBytes
    /\ result.nonce = nonceCall.nonce
    /\ result.sender = proxy
    /\ proxy = ErrorSender(senderCall.err)
    /\ result.signature # PlaceholderSignature
    /\ result.signature = SignMessage(UserOpHash(result))

C12_Witness ==
  /\ Finalized
  /\ nonceCall.nonce = 2
  /\ result.callData = <<"execute", "0xTarget", 0, EmptyBytes>>
  /\ result.sender = AccountAddress

\* A finalization in progress on an operation an earlier finalization signed.
Rerun == pc = "finalize" /\ currOp.signature # PlaceholderSignature
\* The call data was changed since that earlier finalization.
CallDataChanged == currOp.signature # SignMessage(UserOpHash(currOp))

\* C13: in a finalization that follows an earlier one on the same builder, the
\* nonce is fetched again and the init code chosen from the fetched nonce,
\* whatever the operation kept from the earlier finalization; when the call
\* data was changed in between, the new signature differs from the earlier one.
C13_RerunRecomputes ==
  /\ (Rerun /\ Ran("resolveAccount")) =>
       /\ nonceCall.made
       /\ ctxOp.nonce = nonceCall.nonce
       /\ ctxOp.initCode = IF nonceCall.nonce = 0 THEN initCode ELSE EmptyBytes
       /\ ctxOp.sender = currOp.sender
  /\ (Rerun /\ Ran("EOASignature") /\ CallDataChanged) =>
       /\ ctxOp.signature # currOp.signature
       /\ ctxOp.signature # PlaceholderSignature

\* The earlier finalization saw nonce 0 and attached init code; the rerun, on
\* changed call data, fetched nonce 1 and signed.
C13_Witness ==
  /\ Rerun
  /\ Ran("EOASignature")
  /\ CallDataChanged
  /\ currOp.nonce = 0
  /\ currOp.initCode # EmptyBytes
  /\ nonceCall.nonce = 1
  /\ ctxOp.initCode = EmptyBytes

\* The running caller's finalization returned an operation to it.
OwnCallData == result.callData # EmptyBytes /\ result.callData[1] = callers.asked[callers.cur]

\* C14: with two callers on one builder, a cycle (setter, then finalization)
\* during which the caller was never put aside for the other returns an
\* operation carrying the call of that cycle's own setter; interleaved cycles
\* give no such guarantee (C14_Witness).
C14_SerializedCyclesKeepOwnCallData ==
  (callers.two /\ Finalized /\ ~callers.suspended[callers.cur]) =>
    /\ OwnCallData
    /\ result.signature = SignMessage(UserOpHash(result))

\* The interleaving: a caller set its call data, the other caller set another,
\* and the first caller's finalization returned a signed operation carrying the
\* other caller's call data.
C14_Witness ==
  /\ callers.two
  /\ Finalized
  /\ callers.suspended[callers.cur]
  /\ ~OwnCallData
  /\ result.callData[1] = callers.asked[3 - callers.cur]
  /\ result.signature = SignMessage(UserOpHash(result))

\* A serialized run: the second of two cycles, neither put aside, returned its
\* own call data after the other caller's cycle had completed with another.
C14_SerializedWitness ==
  /\ callers.two
  /\ Finalized
  /\ ~callers.suspended[callers.cur]
  /\ callers.cycles[3 - callers.cur] = 1
  /\ OwnCallData
  /\ currOp.callData[1] # "none"

\* A boostWait invocation is past its chain-head fetch.
Waiting == pc \in {"wait_loop", "wait_sleep", "wait_done"}
\* The query and sleep counts are exact (below the cap of the counters).
Exact == wait.polls < MaxCount

\* Sleeps made after the queries issued so far: one after each query but the
\* one just answered or the one that ended the invocation.
SleepsDue ==
  IF pc = "wait_loop" \/ (pc = "wait_done" /\ wait.ret = "null")
    THEN wait.polls
    ELSE IF wait.polls = 0 THEN 0 ELSE wait.polls - 1

\* C15: boostWait reads the chain head once, before its first query, and keeps
\* it to the end; every query starts at max(0, head - 100), whatever the chain
\* has grown to since, and returns the matching events up to the latest block;
\* each query without a match is followed by exactly one sleep of the poll
\* interval before the next, and a query with a match by none.
C15_HeadOnceAndOneSleepPerPoll ==
  /\ [](Waiting /\ wait.polls > 0 =>
          /\ wait.block >= 0
          /\ wait.fromBlock >= 0
          /\ wait.fromBlock = (IF wait.block >= ScanBack THEN wait.block - ScanBack ELSE 0))
  /\ [](Waiting /\ Exact => wait.sleeps = SleepsDue)
  /\ [](pc = "wait_sleep" => wait.events = <<>>)
  /\ [][/\ (Waiting /\ pc' # "idle") => wait'.block = wait.block
        /\ (pc = "wait_sleep" /\ pc' # pc) =>
             /\ now' = now + wait.interval
             /\ pc' = "wait_loop"
             /\ wait'.polls = wait.polls
        /\ (pc = "wait_loop" /\ pc' = "wait_done" /\ wait'.ret = "event") =>
             /\ wait'.sleeps = wait.sleeps
             /\ wait'.events =
                  SelectSeq(log, LAMBDA e : e.userOpHash = wait.hash
                                            /\ e.block >= wait'.fromBlock)]_vars

\* The head was read at block 60, the scan starts at block 0; the first query
\* found nothing and was followed by one sleep, and the second returned two
\* events, the later of a block above the head that was read.
C15_Witness ==
  /\ pc = "wait_done"
  /\ wait.ret = "event"
  /\ wait.block = 60
  /\ wait.fromBlock = 0
  /\ Len(wait.events) = 2
  /\ wait.events[2].block > wait.block
  /\ wait.polls = 2
  /\ wait.sleeps = 1

\* The scan starts 100 blocks below a head above 100.
C15_WitnessScanBack ==
  /\ Waiting
  /\ wait.polls > 0
  /\ wait.block = 250
  /\ wait.fromBlock = 150

\* C16: provided the clock advances and the awaited calls return, every
\* boostWait invocation returns, whatever the deadline and the poll interval
\* (0 included); it returns an event, or null, or the error of a failed call,
\* and null only once the deadline has been reached with no match seen.
C16_BoostWaitReturns ==
  /\ (pc = "wait_getBlock") ~> (pc = "wait_done")
  /\ [](pc = "wait_done" =>
          \/ wait.ret = "event" /\ wait.events # <<>>
          \/ wait.ret = "null" /\ ~(now < wait.end) /\ wait.events = <<>>
          \/ wait.ret = "none" /\ wait.failedCall # "none")

\* An invocation with poll interval 0 polled more than once and returned null.
C16_Witness ==
  /\ pc = "wait_done"
  /\ wait.ret = "null"
  /\ wait.interval = 0
  /\ wait.polls >= 2
  /\ wait.sleeps >= 2

\* The gas-estimation middleware in a registration.
GasMiddleware == {"paymasterMiddleware", "estimateUserOperationGas"}
GasPositions == {i \in 1..Len(middlewareStack) : middlewareStack[i] \in GasMiddleware}

\* C17: the builder init returned has exactly one gas-estimation middleware,
\* registered third: the caller's paymaster middleware when the options carry
\* one, the default estimator otherwise; no operation on the builder changes
\* the registration afterwards.
C17_OneGasMiddleware ==
  /\ [](Returned =>
          /\ GasPositions = {3}
          /\ middlewareStack[3] = IF opts.paymasterMiddleware
                                    THEN "paymasterMiddleware"
                                    ELSE "estimateUserOperationGas")
  /\ [][Returned => middlewareStack' = middlewareStack /\ opts' = opts]_vars

\* A finalization on a builder given a paymaster middleware ran it third, after
\* a boostWait invocation on the same builder had completed.
C17_Witness ==
  /\ pc = "finalize"
  /\ opts.paymasterMiddleware
  /\ ran = <<"resolveAccount", "getGasPrice", "paymasterMiddleware">>
  /\ waits = 1

\* A boostWait invocation is in progress or has just ended.
InWait == pc \in {"wait_getBlock", "wait_loop", "wait_sleep", "wait_done"}

\* C18: a supplied deadline of 0 and an absent deadline both give the
\* invocation time plus 30 seconds, the invocation time being the clock reading
\* before the chain head is fetched; any other supplied deadline, past ones
\* included, is the deadline as given.
C18_ZeroDeadlineIsAbsent ==
  InWait =>
    wait.end = IF wait.deadlineArg \in {Absent, <<0>>}
                 THEN wait.calledAt + 30000
                 ELSE wait.deadlineArg[1]

\* Deadline 0 was supplied, the chain-head fetch took time, and the query was
\* issued against a deadline 30 seconds after the invocation.
C18_Witness ==
  /\ pc = "wait_sleep"
  /\ wait.deadlineArg = <<0>>
  /\ wait.lastQueryAt > wait.calledAt
  /\ wait.end = wait.calledAt + 30000

\* A past deadline was supplied and is the deadline as given.
C18_WitnessPast ==
  /\ pc = "wait_done"
  /\ wait.ret = "null"
  /\ wait.deadlineArg # Absent
  /\ wait.end < wait.calledAt
  /\ wait.polls = 0

\* C19: every query is started at a clock reading strictly before the
\* deadline, so an invocation returns null only when each query it started
\* before the deadline came back without a match; what the log holds by the
\* time it returns is not looked at.
C19_QueriesStartBeforeDeadline ==
  /\ (InWait /\ wait.polls > 0) => wait.lastQueryAt < wait.end
  /\ (pc = "wait_done" /\ wait.ret = "null") =>
       /\ wait.events = <<>>
       /\ ~(now < wait.end)
       /\ Exact => wait.empties = wait.polls

\* The invocation polled, slept past the deadline and returned null although a
\* matching event had been emitted during the last sleep.
C19_Witness ==
  /\ pc = "wait_done"
  /\ wait.ret = "null"
  /\ wait.polls > 0
  /\ QueryFilter(wait.hash, wait.fromBlock) # <<>>

\* C20, as claimed: an invocation that returns null does so no later than the
\* deadline plus one poll interval plus the duration of one event query, plus
\* the chain-head fetch when the deadline passed during that fetch.
C20_OvershootFromDeadline ==
  (pc = "wait_done" /\ wait.ret = "null") =>
    now <= wait.end + wait.interval + MaxDuration
             + (IF wait.polls = 0 /\ wait.calledAt < wait.end THEN MaxDuration ELSE 0)

\* C20: an invocation that returns null without having polled returns when
\* the chain-head fetch is over; one that polled returns one query duration and
\* one poll interval after the start of its last query, which was before the
\* deadline. The return is thus later than the deadline by less than a poll
\* interval plus a query duration only when the deadline had not passed by the
\* end of the chain-head fetch.
C20_BoundedOvershoot ==
  (pc = "wait_done" /\ wait.ret = "null") =>
    IF wait.polls = 0
      THEN now <= wait.calledAt + MaxDuration
      ELSE /\ wait.lastQueryAt < wait.end
           /\ now >= wait.lastQueryAt + wait.interval
           /\ now <= wait.lastQueryAt + MaxDuration + wait.interval
           /\ now < wait.end + wait.interval + MaxDuration

\* An invocation polled and returned null a full poll interval after the deadline.
C20_Witness ==
  /\ pc = "wait_done"
  /\ wait.ret = "null"
  /\ wait.polls > 0
  /\ wait.interval = 5000
  /\ now >= wait.end + wait.interval

====
